---- MODULE Spec2Model ----
(***************************************************************************)
(* Model of app.py: the "Generate Slides" handler and create_slide_deck,   *)
(* which turns a parsed JSON deck into a presentation, one slide per       *)
(* descriptor, with the loose-shape normalisation of network_graph nodes   *)
(* and edges and of timeline events.                                       *)
(***************************************************************************)
EXTENDS Integers, Sequences, FiniteSets, TLC

(***************************************************************************)
(* JSON values as json.loads returns them.  A value is a record with a     *)
(* type tag t and a payload v: a str, an int, None, a list (a sequence of  *)
(* values) or a dict (a sequence of <<key, value>> in insertion order).    *)
(***************************************************************************)
S(s) == [t |-> "str", v |-> s]
N(n) == [t |-> "num", v |-> n]
L(l) == [t |-> "list", v |-> l]
D(d) == [t |-> "dict", v |-> d]
Null == [t |-> "null", v |-> <<>>]

IsStr(x) == x.t = "str"
IsList(x) == x.t = "list"
IsDict(x) == x.t = "dict"

\* Python truth value: "", 0, None, [] and {} are falsy.
Truthy(x) ==
    CASE x.t = "str" -> x.v # ""
      [] x.t = "num" -> x.v # 0
      [] x.t = "null" -> FALSE
      [] OTHER -> Len(x.v) > 0

\* The outcome of an evaluation: a value, or a raised exception.
Ok(val) == [ok |-> TRUE, val |-> val, exc |-> ""]
Raise(exc) == [ok |-> FALSE, val |-> <<>>, exc |-> exc]

RECURSIVE Lookup(_, _, _)
Lookup(items, key, default) ==
    IF Len(items) = 0 THEN default
    ELSE IF Head(items)[1] = key THEN Head(items)[2]
    ELSE Lookup(Tail(items), key, default)

\* x.get(key, default): only a dict has .get.
Get(x, key, default) ==
    IF IsDict(x) THEN Ok(Lookup(x.v, key, default))
    ELSE Raise("AttributeError: '" \o x.t \o "' object has no attribute 'get'")

\* list(d.values())
Values(d) == [j \in 1..Len(d.v) |-> d.v[j][2]]

\* The items a for statement draws from x: a list's elements, a dict's keys,
\* a str's characters; a number or None is not iterable.
Iter(x) ==
    CASE x.t = "list" -> Ok(x.v)
      [] x.t = "dict" -> Ok([j \in 1..Len(x.v) |-> S(x.v[j][1])])
      [] x.t = "str" -> Ok([j \in 1..Len(x.v) |-> S(SubSeq(x.v, j, j))])
      [] OTHER -> Raise("TypeError: '" \o x.t \o "' object is not iterable")

Digit(n) ==
    CASE n = 0 -> "0" [] n = 1 -> "1" [] n = 2 -> "2" [] n = 3 -> "3"
      [] n = 4 -> "4" [] n = 5 -> "5" [] n = 6 -> "6" [] n = 7 -> "7"
      [] n = 8 -> "8" [] n = 9 -> "9"

RECURSIVE IntStr(_)
IntStr(n) ==
    IF n < 0 THEN "-" \o IntStr(0 - n)
    ELSE IF n < 10 THEN Digit(n)
    ELSE IntStr(n \div 10) \o Digit(n % 10)

RECURSIVE Repr(_)
RECURSIVE ReprItems(_)
RECURSIVE ReprPairs(_)
Repr(x) ==
    CASE x.t = "str" -> "'" \o x.v \o "'"
      [] x.t = "num" -> IntStr(x.v)
      [] x.t = "null" -> "None"
      [] x.t = "list" -> "[" \o ReprItems(x.v) \o "]"
      [] OTHER -> "{" \o ReprPairs(x.v) \o "}"
ReprItems(items) ==
    IF Len(items) = 0 THEN ""
    ELSE IF Len(items) = 1 THEN Repr(items[1])
    ELSE Repr(items[1]) \o ", " \o ReprItems(Tail(items))
ReprPairs(items) ==
    IF Len(items) = 0 THEN ""
    ELSE IF Len(items) = 1 THEN "'" \o items[1][1] \o "': " \o Repr(items[1][2])
    ELSE "'" \o items[1][1] \o "': " \o Repr(items[1][2]) \o ", "
             \o ReprPairs(Tail(items))

\* str(x): a str is itself, anything else prints as its repr.
PyStr(x) == IF IsStr(x) THEN x.v ELSE Repr(x)

(***************************************************************************)
(* network_graph: node and edge cleaning, and the graph built from them.   *)
(***************************************************************************)
RECURSIVE CleanNodes(_, _)
CleanNodes(items, acc) ==
    IF Len(items) = 0 THEN Ok(acc)
    ELSE LET n == Head(items) IN
         IF IsStr(n) THEN CleanNodes(Tail(items), Append(acc, n.v))
         ELSE IF IsList(n) /\ Len(n.v) > 0
              THEN CleanNodes(Tail(items), Append(acc, PyStr(n.v[1])))
         ELSE IF IsDict(n)
              THEN IF Len(Values(n)) = 0
                   THEN Raise("IndexError: list index out of range")
                   ELSE CleanNodes(Tail(items), Append(acc, PyStr(Values(n)[1])))
         ELSE CleanNodes(Tail(items), acc)

\* CleanEdges with the length test off by one (> 2 for >= 2).
RECURSIVE CleanEdgesOffByOne(_, _)
CleanEdgesOffByOne(items, acc) ==
    IF Len(items) = 0 THEN acc
    ELSE LET e == Head(items) IN
         IF IsList(e) /\ Len(e.v) > 2
         THEN CleanEdgesOffByOne(Tail(items),
                         Append(acc, <<PyStr(e.v[1]), PyStr(e.v[2])>>))
         ELSE IF IsDict(e) /\ Len(Values(e)) >= 2
              THEN CleanEdgesOffByOne(Tail(items),
                     Append(acc, <<PyStr(Values(e)[1]), PyStr(Values(e)[2])>>))
         ELSE CleanEdgesOffByOne(Tail(items), acc)

RECURSIVE CleanEdges(_, _)
CleanEdges(items, acc) ==
    IF Len(items) = 0 THEN acc
    ELSE LET e == Head(items) IN
         IF IsList(e) /\ Len(e.v) >= 2
         THEN CleanEdges(Tail(items),
                         Append(acc, <<PyStr(e.v[1]), PyStr(e.v[2])>>))
         ELSE IF IsDict(e) /\ Len(Values(e)) >= 2
              THEN CleanEdges(Tail(items),
                     Append(acc, <<PyStr(Values(e)[1]), PyStr(Values(e)[2])>>))
         ELSE CleanEdges(Tail(items), acc)

\* BuildGraph without the endpoints of the edges: nodes from clean_nodes only.
BuildGraphNodesOnly(clean_nodes, clean_edges) ==
    [nodes |-> {clean_nodes[j] : j \in 1..Len(clean_nodes)},
     edges |-> {{clean_edges[j][1], clean_edges[j][2]} :
                  j \in 1..Len(clean_edges)}]

\* nx.Graph after add_nodes_from / add_edges_from: a set of nodes (a repeated
\* identifier is one node; an edge adds its endpoints) and undirected edges.
BuildGraph(clean_nodes, clean_edges) ==
    LET fromNodes == IF Len(clean_nodes) > 0
                     THEN {clean_nodes[j] : j \in 1..Len(clean_nodes)} ELSE {}
        fromEdges == IF Len(clean_edges) > 0
                     THEN UNION {{clean_edges[j][1], clean_edges[j][2]} :
                                   j \in 1..Len(clean_edges)}
                     ELSE {}
    IN [nodes |-> fromNodes \cup fromEdges,
        edges |-> {{clean_edges[j][1], clean_edges[j][2]} :
                     j \in 1..Len(clean_edges)}]

(***************************************************************************)
(* timeline: event resolution and key reading.                             *)
(***************************************************************************)
\* FirstTruthy testing the presence of the key instead of the truth of its
\* value: the first key present wins, whatever it holds.
FirstPresent(e, keys, default) ==
    LET has(j) == \E i \in 1..Len(e.v) : e.v[i][1] = keys[j]
        g(j) == Lookup(e.v, keys[j], Null)
    IN IF has(1) THEN g(1)
       ELSE IF has(2) THEN g(2)
       ELSE IF has(3) THEN g(3)
       ELSE IF has(4) THEN g(4)
       ELSE S(default)

\* a or b or c or d or default, over e.get(key) (None when the key is absent)
FirstTruthy(e, keys, default) ==
    LET g(j) == Lookup(e.v, keys[j], Null) IN
    IF Truthy(g(1)) THEN g(1)
    ELSE IF Truthy(g(2)) THEN g(2)
    ELSE IF Truthy(g(3)) THEN g(3)
    ELSE IF Truthy(g(4)) THEN g(4)
    ELSE S(default)

DateKeys == <<"date", "year", "time", "Date">>
LabelKeys == <<"label", "title", "event", "Label">>

EventDate(e) == PyStr(FirstTruthy(e, DateKeys, "N/A"))
EventLabel(e) == PyStr(FirstTruthy(e, LabelKeys, "No Label"))

RECURSIVE ReadEvents(_, _)
ReadEvents(items, acc) ==
    IF Len(items) = 0 THEN acc
    ELSE LET e == Head(items) IN
         IF IsDict(e)
         THEN ReadEvents(Tail(items),
                         Append(acc, <<EventDate(e), EventLabel(e)>>))
         ELSE ReadEvents(Tail(items), acc)

\* events = content.get('events', []); if not events and isinstance(content,
\* list): events = content.  content.get is evaluated first, on any content.
ResolveEvents(content) ==
    LET got == Get(content, "events", L(<<>>)) IN
    IF ~got.ok THEN got
    ELSE IF ~Truthy(got.val) /\ IsList(content) THEN Ok(content)
    ELSE got

\* label[:10] + '...' if len(label) > 10 else label
DisplayLabel(label) ==
    IF Len(label) > 10 THEN SubSeq(label, 1, 10) \o "..." ELSE label

\* BarRaises for a plot that accepts series of any lengths.
BarNeverRaises(labels, values) == FALSE

\* ax.bar(labels, values): the two series are broadcast against each other,
\* which fails when the lengths differ and neither is 1.
BarRaises(labels, values) ==
    /\ Len(labels) # Len(values)
    /\ Len(labels) # 1
    /\ Len(values) # 1

(***************************************************************************)
(* The inputs: slide descriptors, decks and the text of the JSON box.      *)
(***************************************************************************)
MaxDeck == 3

Desc(title, type, content) ==
    D(<< <<"title", S(title)>>, <<"type", S(type)>>, <<"content", content>> >>)

BulletsOk ==
    Desc("Agenda", "bullet_points",
         D(<< <<"points", L(<<S("one"), S("two")>>)>> >>))
UnknownType == Desc("Other", "quote", D(<<>>))
NoKeys == D(<<>>)
BarOk ==
    Desc("Sales", "bar_chart",
         D(<< <<"labels", L(<<S("a"), S("b")>>)>>,
              <<"values", L(<<N(1), N(2)>>)>> >>))
BarMismatch ==
    Desc("Sales", "bar_chart",
         D(<< <<"labels", L(<<S("a"), S("b")>>)>>,
              <<"values", L(<<N(1), N(2), N(3)>>)>> >>))
NetContent(nodes, edges) ==
    D(<< <<"nodes", L(nodes)>>, <<"edges", L(edges)>> >>)
NetOk ==
    Desc("Map", "network_graph",
         NetContent(<<S("A"), L(<<S("B")>>)>>, << L(<<S("A"), S("B")>>) >>))
NetEmpty == Desc("Map", "network_graph", NetContent(<<>>, <<>>))
NetEmptyDictNode ==
    Desc("Map", "network_graph", NetContent(<<S("A"), D(<<>>)>>, <<>>))
EventFounded == D(<< <<"year", N(1990)>>, <<"event", S("Founded")>> >>)
TimelineOk ==
    Desc("History", "timeline", D(<< <<"events", L(<<EventFounded>>)>> >>))
TimelineLegacy == Desc("History", "timeline", L(<<EventFounded>>))
NotAMapping == S("oops")

Descriptors ==
    {BulletsOk, UnknownType, NoKeys, BarOk, BarMismatch, NetOk, NetEmpty,
     NetEmptyDictNode, TimelineOk, TimelineLegacy, NotAMapping}

\* All sequences over set of length at most n.
SeqsUpTo(set, n) == UNION {[1..m -> set] : m \in 0..n}

\* Top-level documents: decks, and JSON values that are not a list.
Documents ==
    {L(deck) : deck \in SeqsUpTo(Descriptors, MaxDeck)}
        \cup {N(5), D(<< <<"title", S("T")>> >>)}

TextOf(doc) == [kind |-> "json", doc |-> doc]
EmptyText == [kind |-> "empty", doc |-> Null]
MalformedText == [kind |-> "malformed", doc |-> Null]
Texts == {EmptyText, MalformedText} \cup {TextOf(doc) : doc \in Documents}

\* json.loads(text)
JsonLoads(text) ==
    IF text.kind = "json" THEN Ok(text.doc)
    ELSE Raise("JSONDecodeError")

(***************************************************************************)
(* The state of one generate request.                                      *)
(***************************************************************************)
VARIABLES
    pc,          \* where the handler / create_slide_deck stands
    json_input,  \* the text of the JSON box
    json_data,   \* the parsed document
    k,           \* number of descriptors whose loop body has completed
    slide_data,  \* the descriptor of the current iteration
    slides,      \* prs.slides
    figs,        \* pyplot's open figures, the current one last
    loc,         \* clean_nodes, clean_edges, G, dates, labels
    ui,          \* what the page shows after the click
    err,         \* the description carried by the generic error
    pptx_file    \* <<>> or <<document>>: create_slide_deck's return value

vars == <<pc, json_input, json_data, k, slide_data, slides, figs, loc, ui,
          err, pptx_file>>

NoLocals ==
    [clean_nodes |-> <<>>, clean_edges |-> <<>>,
     G |-> [nodes |-> {}, edges |-> {}], dates |-> <<>>, labels |-> <<>>]

InitWith(texts) ==
    /\ json_input \in texts
    /\ pc = "idle"
    /\ json_data = Null
    /\ k = 0
    /\ slide_data = Null
    /\ slides = <<>>
    /\ figs = <<>>
    /\ loc = NoLocals
    /\ ui = {}
    /\ err = ""
    /\ pptx_file = <<>>

Init == InitWith(Texts)

\* except Exception as e: st.error(... {e})
Propagate(exc) ==
    /\ pc' = "done"
    /\ ui' = {"generic_error"}
    /\ err' = exc

\* The end of a loop body: back to the for statement.
NextDescriptor ==
    /\ pc' = "for"
    /\ k' = k + 1

\* The slide of the current iteration with one more shape.
WithShape(shape) ==
    [slides EXCEPT ![Len(slides)].shapes = Append(@, shape)]

Picture(chart, text, a, b) ==
    [kind |-> "picture", chart |-> chart, text |-> text, a |-> a, b |-> b]
TextBox(paragraphs) ==
    [kind |-> "textbox", chart |-> "", text |-> "", a |-> paragraphs, b |-> <<>>]

\* plt.subplots(): a new figure, which becomes the current one.
OpenFigure == Append(figs, [owner |-> k + 1])
\* plt.close(): closes the current figure.
CloseFigure == SubSeq(figs, 1, Len(figs) - 1)

Content == Lookup(slide_data.v, "content", D(<<>>))

\* AddSlide that reuses the slide of the previous iteration when there is one.
AddSlideReused(title) ==
    IF Len(slides) = 0
    THEN <<[src |-> k + 1, title |-> title, shapes |-> <<>>]>>
    ELSE [slides EXCEPT ![Len(slides)] =
            [src |-> k + 1, title |-> title, shapes |-> <<>>]]

\* prs.slides.add_slide(slide_layout) and the title box with its text.
AddSlide(title) ==
    Append(slides, [src |-> k + 1, title |-> title, shapes |-> <<>>])

(***************************************************************************)
(* The Generate Slides handler.                                            *)
(***************************************************************************)
Generate ==
    /\ pc = "idle"
    /\ pc' = IF json_input.kind = "empty" THEN "done" ELSE "loads"
    /\ UNCHANGED <<json_input, json_data, k, slide_data, slides, figs, loc,
                   ui, err, pptx_file>>

\* Loads with the generic handler first: a parse failure is reported as the
\* generic failure.
LoadsGenericFirst ==
    /\ pc = "loads"
    /\ LET r == JsonLoads(json_input) IN
       IF r.ok
       THEN /\ json_data' = r.val
            /\ pc' = "for"
            /\ UNCHANGED <<ui, err>>
       ELSE /\ Propagate(r.exc)
            /\ UNCHANGED json_data
    /\ UNCHANGED <<json_input, k, slide_data, slides, figs, loc, pptx_file>>

Loads ==
    /\ pc = "loads"
    /\ LET r == JsonLoads(json_input) IN
       IF r.ok
       THEN /\ json_data' = r.val
            /\ pc' = "for"
            /\ UNCHANGED <<ui, err>>
       ELSE /\ pc' = "done"
            /\ ui' = {"parse_error"}
            /\ UNCHANGED <<json_data, err>>
    /\ UNCHANGED <<json_input, k, slide_data, slides, figs, loc, pptx_file>>

Offer ==
    /\ pc = "offer"
    /\ pc' = "done"
    /\ ui' = {"success", "download"}
    /\ UNCHANGED <<json_input, json_data, k, slide_data, slides, figs, loc,
                   err, pptx_file>>

(***************************************************************************)
(* create_slide_deck.                                                      *)
(***************************************************************************)
ForNext ==
    /\ pc = "for"
    /\ LET it == Iter(json_data) IN
       IF ~it.ok
       THEN Propagate(it.exc) /\ UNCHANGED slide_data
       ELSE IF k < Len(it.val)
       THEN /\ slide_data' = it.val[k + 1]
            /\ pc' = "head"
            /\ UNCHANGED <<ui, err>>
       ELSE /\ pc' = "save"
            /\ UNCHANGED <<slide_data, ui, err>>
    /\ UNCHANGED <<json_input, json_data, k, slides, figs, loc, pptx_file>>

Branch(sType) ==
    IF sType = S("bullet_points") THEN "bullet"
    ELSE IF sType = S("bar_chart") THEN "bar"
    ELSE IF sType = S("network_graph") THEN "net"
    ELSE IF sType = S("timeline") THEN "timeline"
    ELSE "none"

SlideHead ==
    /\ pc = "head"
    /\ IF ~IsDict(slide_data)
       THEN /\ slides' = AddSlide(Null)
            /\ Propagate(Get(slide_data, "title", S("No Title")).exc)
            /\ UNCHANGED k
       ELSE /\ slides' = AddSlide(Lookup(slide_data.v, "title", S("No Title")))
            /\ LET b == Branch(Lookup(slide_data.v, "type", Null)) IN
               IF b = "none"
               THEN NextDescriptor
               ELSE pc' = b /\ UNCHANGED k
            /\ UNCHANGED <<ui, err>>
    /\ UNCHANGED <<json_input, json_data, slide_data, figs, loc, pptx_file>>

Save ==
    /\ pc = "save"
    /\ pptx_file' = <<slides>>
    /\ pc' = "offer"
    /\ UNCHANGED <<json_input, json_data, k, slide_data, slides, figs, loc,
                   ui, err>>

\* --- bullet_points ---
Bullet ==
    /\ pc = "bullet"
    /\ LET got == Get(Content, "points", L(<<>>))
           it == IF got.ok THEN Iter(got.val) ELSE got
       IN IF ~it.ok
          THEN /\ slides' = WithShape(TextBox(<<>>))
               /\ Propagate(it.exc)
               /\ UNCHANGED k
          ELSE /\ slides' = WithShape(TextBox(
                     [j \in 1..Len(it.val) |-> "* " \o PyStr(it.val[j])]))
               /\ NextDescriptor
               /\ UNCHANGED <<ui, err>>
    /\ UNCHANGED <<json_input, json_data, slide_data, figs, loc, pptx_file>>

\* --- bar_chart ---
BarSubplots ==
    /\ pc = "bar"
    /\ figs' = OpenFigure
    /\ pc' = "bar_draw"
    /\ UNCHANGED <<json_input, json_data, k, slide_data, slides, loc, ui, err,
                   pptx_file>>

BarDraw ==
    /\ pc = "bar_draw"
    /\ LET labels == Get(Content, "labels", L(<<>>))
           values == Get(Content, "values", L(<<>>))
           xs == IF labels.ok THEN Iter(labels.val) ELSE labels
           hs == IF values.ok THEN Iter(values.val) ELSE values
       IN IF ~xs.ok \/ ~hs.ok
          THEN /\ Propagate(IF ~xs.ok THEN xs.exc ELSE hs.exc)
               /\ UNCHANGED <<k, slides, figs>>
          ELSE IF BarRaises(xs.val, hs.val)
          THEN /\ Propagate("ValueError: shape mismatch")
               /\ UNCHANGED <<k, slides, figs>>
          ELSE /\ slides' = WithShape(Picture("bar", "", xs.val, hs.val))
               /\ figs' = CloseFigure
               /\ NextDescriptor
               /\ UNCHANGED <<ui, err>>
    /\ UNCHANGED <<json_input, json_data, slide_data, loc, pptx_file>>

\* --- network_graph ---
NetSubplots ==
    /\ pc = "net"
    /\ figs' = OpenFigure
    /\ pc' = "net_clean"
    /\ UNCHANGED <<json_input, json_data, k, slide_data, slides, loc, ui, err,
                   pptx_file>>

\* raw_nodes, raw_edges, the two cleaning loops and the graph construction
Normalize(content) ==
    LET raw_nodes == Get(content, "nodes", L(<<>>))
        raw_edges == Get(content, "edges", L(<<>>))
        ns == IF raw_nodes.ok THEN Iter(raw_nodes.val) ELSE raw_nodes
        clean_nodes == IF ns.ok THEN CleanNodes(ns.val, <<>>) ELSE ns
        es == IF raw_edges.ok THEN Iter(raw_edges.val) ELSE raw_edges
    IN IF ~clean_nodes.ok THEN clean_nodes
       ELSE IF ~es.ok THEN es
       ELSE Ok([clean_nodes |-> clean_nodes.val,
                clean_edges |-> CleanEdges(es.val, <<>>)])

NetClean ==
    /\ pc = "net_clean"
    /\ LET r == Normalize(Content) IN
       IF ~r.ok
       THEN /\ Propagate(r.exc)
            /\ UNCHANGED loc
       ELSE /\ loc' = [loc EXCEPT !.clean_nodes = r.val.clean_nodes,
                                  !.clean_edges = r.val.clean_edges,
                                  !.G = BuildGraph(r.val.clean_nodes,
                                                   r.val.clean_edges)]
            /\ pc' = "net_draw"
            /\ UNCHANGED <<ui, err>>
    /\ UNCHANGED <<json_input, json_data, k, slide_data, slides, figs,
                   pptx_file>>

\* The failures the layout/draw calls can end in (the library decides).
DrawErrors == {"layout failed"}

\* What the image shows: the placeholder, the drawn graph, or the diagnostic.
NetImage(G, drawn) ==
    IF Cardinality(G.nodes) = 0
    THEN Picture("net", "No Data for Graph", {}, {})
    ELSE IF drawn.ok
    THEN Picture("net", "", G.nodes, G.edges)
    ELSE Picture("net", "Graph Error: " \o drawn.exc, {}, {})

\* NetDraw without the try/except: a layout/draw failure leaves the function.
NetDrawUncaught ==
    /\ pc = "net_draw"
    /\ \E drawn \in {Ok(<<>>)} \cup {Raise(x) : x \in DrawErrors} :
          IF Cardinality(loc.G.nodes) > 0 /\ ~drawn.ok
          THEN /\ Propagate(drawn.exc)
               /\ UNCHANGED <<k, slides, figs>>
          ELSE /\ slides' = WithShape(NetImage(loc.G, drawn))
               /\ figs' = CloseFigure
               /\ NextDescriptor
               /\ UNCHANGED <<ui, err>>
    /\ UNCHANGED <<json_input, json_data, slide_data, loc, pptx_file>>

NetDraw ==
    /\ pc = "net_draw"
    /\ \E drawn \in {Ok(<<>>)} \cup {Raise(x) : x \in DrawErrors} :
          slides' = WithShape(NetImage(loc.G, drawn))
    /\ figs' = CloseFigure
    /\ NextDescriptor
    /\ UNCHANGED <<json_input, json_data, slide_data, loc, ui, err, pptx_file>>

\* --- timeline ---
TimelineSubplots ==
    /\ pc = "timeline"
    /\ figs' = OpenFigure
    /\ pc' = "tl_events"
    /\ UNCHANGED <<json_input, json_data, k, slide_data, slides, loc, ui, err,
                   pptx_file>>

TimelineEvents ==
    /\ pc = "tl_events"
    /\ LET events == ResolveEvents(Content)
           it == IF events.ok THEN Iter(events.val) ELSE events
       IN IF ~it.ok
          THEN /\ Propagate(it.exc)
               /\ UNCHANGED loc
          ELSE /\ LET pairs == ReadEvents(it.val, <<>>) IN
                  loc' = [loc EXCEPT
                            !.dates = [j \in 1..Len(pairs) |-> pairs[j][1]],
                            !.labels = [j \in 1..Len(pairs) |-> pairs[j][2]]]
               /\ pc' = "tl_draw"
               /\ UNCHANGED <<ui, err>>
    /\ UNCHANGED <<json_input, json_data, k, slide_data, slides, figs,
                   pptx_file>>

TimelineImage(dates, labels) ==
    IF Len(dates) > 0
    THEN Picture("timeline", "", dates,
                 [j \in 1..Len(labels) |-> DisplayLabel(labels[j])])
    ELSE Picture("timeline", "No Timeline Data", <<>>, <<>>)

TimelineDraw ==
    /\ pc = "tl_draw"
    /\ slides' = WithShape(TimelineImage(loc.dates, loc.labels))
    /\ figs' = CloseFigure
    /\ NextDescriptor
    /\ UNCHANGED <<json_input, json_data, slide_data, loc, ui, err, pptx_file>>

Next ==
    \/ Generate
    \/ Loads
    \/ Offer
    \/ ForNext
    \/ SlideHead
    \/ Save
    \/ Bullet
    \/ BarSubplots
    \/ BarDraw
    \/ NetSubplots
    \/ NetClean
    \/ NetDraw
    \/ TimelineSubplots
    \/ TimelineEvents
    \/ TimelineDraw

Spec == Init /\ [][Next]_vars

(***************************************************************************)
(* One network_graph descriptor, over every bounded list of node entries   *)
(* and of edge entries.                                                    *)
(***************************************************************************)
MaxNodes == 2
MaxEdges == 2

NodeEntries ==
    {S("A"), S("B"), L(<<S("B")>>), L(<<N(1), S("Z")>>), L(<<>>),
     D(<< <<"x", S("C")>> >>), D(<< <<"id", N(7)>>, <<"name", S("A")>> >>),
     D(<<>>), N(5), Null}
EdgeEntries ==
    {L(<<S("A"), S("B")>>), L(<<S("B"), S("C"), S("D")>>), L(<<N(1), N(2)>>),
     D(<< <<"s", S("A")>>, <<"t", S("C")>> >>), D(<< <<"from", S("B")>> >>),
     D(<<>>), L(<<S("X")>>), L(<<>>), S("AB"), N(5)}

ExampleNodes ==
    <<S("A"), L(<<S("B")>>), D(<< <<"x", S("C")>> >>), D(<<>>), L(<<>>), N(5)>>
ExampleEdges ==
    <<L(<<S("A"), S("B")>>), D(<< <<"s", S("A")>>, <<"t", S("C")>> >>),
      L(<<S("X")>>)>>

NetInputs ==
    (SeqsUpTo(NodeEntries, MaxNodes) \X {<<>>, << L(<<S("A"), S("B")>>) >>})
        \cup ({<<>>, <<S("A")>>} \X SeqsUpTo(EdgeEntries, MaxEdges))
        \cup {<<ExampleNodes, <<>> >>, << <<>>, ExampleEdges>>}

InitNet ==
    InitWith({TextOf(L(<< Desc("Map", "network_graph", NetContent(p[1], p[2])) >>)) :
                p \in NetInputs})

NextNet ==
    \/ Generate
    \/ Loads
    \/ Offer
    \/ ForNext
    \/ SlideHead
    \/ Save
    \/ NetSubplots
    \/ NetClean
    \/ NetDraw

SpecNet == InitNet /\ [][NextNet]_vars

(***************************************************************************)
(* One timeline descriptor, over event mappings in which each candidate    *)
(* key is absent, present with a falsy value or present with a truthy one, *)
(* and over bounded lists of event entries of any shape.                   *)
(***************************************************************************)
MaxEvents == 2

KeyStates == {"absent", "falsy", "truthy"}
KeyChoices == [1..4 -> KeyStates]

TruthyDates == <<S("2020-01"), N(1990), S("noon"), S("D-day")>>
FalsyDates == <<S(""), N(0), S(""), N(0)>>
TruthyLabels == <<S("Launch"), S("Reorganisation"), S("Founded"), N(42)>>
FalsyLabels == <<N(0), S(""), N(0), S("")>>

Pairs(keys, choice, truthy, falsy) ==
    LET all == [j \in 1..4 |->
                  <<keys[j], IF choice[j] = "truthy" THEN truthy[j] ELSE falsy[j],
                    choice[j]>>]
        present(p) == p[3] # "absent"
        kept == SelectSeq(all, present)
    IN [j \in 1..Len(kept) |-> <<kept[j][1], kept[j][2]>>]

Event(dc, lc) ==
    D(Pairs(DateKeys, dc, TruthyDates, FalsyDates)
        \o Pairs(LabelKeys, lc, TruthyLabels, FalsyLabels))

FewChoices == {[j \in 1..4 |-> "absent"], [j \in 1..4 |-> "truthy"]}

KeyedEvents ==
    {Event(dc, lc) : dc \in KeyChoices, lc \in FewChoices}
        \cup {Event(dc, lc) : dc \in FewChoices, lc \in KeyChoices}

EventEntries ==
    {EventFounded, D(<<>>), S("x"), N(3), L(<<S("date")>>), Null}

EventLists ==
    {<<e>> : e \in KeyedEvents} \cup SeqsUpTo(EventEntries, MaxEvents)

InitTimeline ==
    InitWith({TextOf(L(<< Desc("History", "timeline",
                               D(<< <<"events", L(evs)>> >>)) >>)) :
                evs \in EventLists})

NextTimeline ==
    \/ Generate
    \/ Loads
    \/ Offer
    \/ ForNext
    \/ SlideHead
    \/ Save
    \/ TimelineSubplots
    \/ TimelineEvents
    \/ TimelineDraw

SpecTimeline == InitTimeline /\ [][NextTimeline]_vars

(***************************************************************************)
(* Properties.                                                             *)
(***************************************************************************)
\* The deck of the request, when the document is a list.
Deck == json_data.v
TypeOf(d) == IF IsDict(d) THEN Lookup(d.v, "type", Null) ELSE Null
Offered == pc = "done" /\ "download" \in ui

RawNodes == Lookup(Content.v, "nodes", L(<<>>)).v
RawEdges == Lookup(Content.v, "edges", L(<<>>)).v
RawEvents == Lookup(Content.v, "events", L(<<>>)).v

\* The body a page of a descriptor of type ty is expected to have.
BodyMatches(page, ty) ==
    IF ty = S("bullet_points")
    THEN Len(page.shapes) = 1 /\ page.shapes[1].kind = "textbox"
    ELSE IF ty = S("bar_chart")
    THEN Len(page.shapes) = 1 /\ page.shapes[1].chart = "bar"
    ELSE IF ty = S("network_graph")
    THEN Len(page.shapes) = 1 /\ page.shapes[1].chart = "net"
    ELSE IF ty = S("timeline")
    THEN Len(page.shapes) = 1 /\ page.shapes[1].chart = "timeline"
    ELSE page.shapes = <<>>

PageFrom(page, j, d) ==
    /\ page.src = j
    /\ page.title = Lookup(d.v, "title", S("No Title"))
    /\ BodyMatches(page, TypeOf(d))

\* C1: at the for statement, after k descriptors the document holds exactly k
\* pages (k + 1 inside the loop body, once the page of the current descriptor
\* is added); when create_slide_deck completes, the document has one page per
\* descriptor, page j made from descriptor j, whatever its type value.
C1_OnePagePerDescriptor ==
    /\ pc \in {"for", "head"} => Len(slides) = k
    /\ pc \in {"bullet", "bar", "bar_draw", "net", "net_clean", "net_draw",
               "timeline", "tl_events", "tl_draw"} => Len(slides) = k + 1
    /\ pc \in {"save", "offer"} \/ pptx_file # <<>> =>
          /\ IsDict(json_data) \/ IsList(json_data)
          /\ Len(slides) = Len(Iter(json_data).val)
          /\ \A j \in 1..Len(slides) :
                PageFrom(slides[j], j, Iter(json_data).val[j])
    /\ pptx_file # <<>> => pptx_file = <<slides>>

C1_Witness ==
    /\ Offered
    /\ json_data = L(<<BulletsOk, UnknownType, NoKeys>>)
    /\ Len(pptx_file[1]) = 3

\* The canonical nodes the node rules give: a string as it is, the first
\* element of a non-empty sequence, the first value of a non-empty mapping,
\* and nothing for any other entry.
ClaimedNodes(raw) ==
    LET usable(n) == IsStr(n) \/ ((IsList(n) \/ IsDict(n)) /\ Len(n.v) > 0)
        kept == SelectSeq(raw, usable)
    IN [j \in 1..Len(kept) |->
          IF IsStr(kept[j]) THEN kept[j].v
          ELSE IF IsList(kept[j]) THEN PyStr(kept[j].v[1])
          ELSE PyStr(kept[j].v[1][2])]

\* C2: node normalization never raises, whatever the node entries, and gives
\* the canonical nodes of the node rules (an empty mapping is skipped); the
\* example list yields A, B, C.
C2_NodeNormalizationNeverRaises ==
    /\ pc = "done" => "generic_error" \notin ui
    /\ pc = "net_draw" => loc.clean_nodes = ClaimedNodes(RawNodes)
    /\ pc = "net_draw" /\ RawNodes = ExampleNodes =>
          loc.clean_nodes = <<"A", "B", "C">>

\* C3: a timeline descriptor whose content is itself the sequence of events
\* is processed without failure.
C3_LegacyTimelineRenders ==
    (IsDict(slide_data) /\ TypeOf(slide_data) = S("timeline") /\ IsList(Content))
        => "generic_error" \notin ui

\* C4: at the start of a descriptor's processing and once the build has
\* ended, by returning the document or by a failure, no figure is open.
C4_FiguresReleased ==
    pc \in {"for", "head", "save", "offer", "done"} => figs = <<>>

\* The claim's examples of a malformed descriptor.
MismatchedBar(d) ==
    /\ IsDict(d)
    /\ TypeOf(d) = S("bar_chart")
    /\ LET c == Lookup(d.v, "content", D(<<>>)) IN
       /\ IsDict(c)
       /\ IsList(Lookup(c.v, "labels", L(<<>>)))
       /\ IsList(Lookup(c.v, "values", L(<<>>)))
       /\ LET nl == Len(Lookup(c.v, "labels", L(<<>>)).v)
              nv == Len(Lookup(c.v, "values", L(<<>>)).v)
          IN nl # nv /\ nl # 1 /\ nv # 1
Malformed(d) == ~IsDict(d) \/ MismatchedBar(d)
WellFormed == {BulletsOk, BarOk, NetOk, NetEmpty, TimelineOk}

\* C5 as stated: a malformed descriptor does not abort the deck, the
\* well-formed descriptors before and after it have their pages in the
\* document that is offered.
C5_WellFormedPagesSurvive ==
    (pc = "done" /\ IsList(json_data)) =>
        \A j \in 1..Len(Deck) :
            Deck[j] \in WellFormed =>
                /\ Offered
                /\ pptx_file # <<>>
                /\ \E i \in 1..Len(pptx_file[1]) : pptx_file[1][i].src = j

\* C5 as amended: a deck with a malformed descriptor (not a mapping, or a
\* bar_chart whose labels and values the plot rejects) ends in the generic
\* failure with no document; the pages built so far stop at that descriptor.
C5_MalformedAbortsDeck ==
    (pc = "done" /\ IsList(json_data)) =>
        \A j \in 1..Len(Deck) :
            Malformed(Deck[j]) =>
                /\ ui = {"generic_error"}
                /\ pptx_file = <<>>
                /\ Len(slides) <= j
                /\ k < j

C5_Witness ==
    /\ pc = "done"
    /\ json_data = L(<<BulletsOk, BarMismatch, BulletsOk>>)
    /\ ui = {"generic_error"}
    /\ Len(slides) = 2
    /\ k = 1

NotStarted == json_data = Null /\ slides = <<>> /\ pptx_file = <<>> /\ k = 0
ParseFailure ==
    /\ json_input.kind # "json"
    /\ ui = {"parse_error"}
    /\ NotStarted
BuildFailure ==
    /\ json_input.kind = "json"
    /\ ui = {"generic_error"}
    /\ err # ""
    /\ pptx_file = <<>>
Complete ==
    /\ json_input.kind = "json"
    /\ ui = {"success", "download"}
    /\ err = ""
    /\ pptx_file = <<slides>>
    /\ Len(slides) = Len(Iter(json_data).val)
Ignored ==
    /\ json_input.kind = "empty"
    /\ ui = {}
    /\ NotStarted

\* C6 as stated: every request ends in the parse failure (text that is not
\* JSON, build never started), the generic failure (no document) or the
\* complete document, and never in two of them.
C6_OneOfThreeOutcomes ==
    /\ ~("download" \in ui /\ ({"parse_error", "generic_error"} \cap ui) # {})
    /\ ~({"parse_error", "generic_error"} \subseteq ui)
    /\ pc = "done" => ParseFailure \/ BuildFailure \/ Complete

\* C6 as amended: a request on non-empty text ends in exactly one of the
\* three outcomes; a request on empty text ends with nothing shown at all.
C6_OneOfThreeOrIgnored ==
    /\ ~("download" \in ui /\ ({"parse_error", "generic_error"} \cap ui) # {})
    /\ ~({"parse_error", "generic_error"} \subseteq ui)
    /\ pc = "done" =>
          /\ json_input.kind = "empty" => Ignored
          /\ json_input.kind = "malformed" => ParseFailure
          /\ json_input.kind = "json" => BuildFailure \/ Complete

C6_Witness ==
    /\ pc = "done"
    /\ BuildFailure
    /\ Len(slides) >= 2

\* C7: a network_graph descriptor whose graph has a node always ends its
\* draw step with its picture added to the one page it appended and the
\* build back at the for statement, nothing reported; the picture is the
\* drawn graph or, when the layout/draw raised, the diagnostic with the
\* failure description.
C7_DrawFailureContained ==
    [][(pc = "net_draw" /\ Len(loc.clean_nodes) > 0) =>
          /\ pc' = "for"
          /\ k' = k + 1
          /\ Len(slides') = Len(slides)
          /\ Len(slides') = k'
          /\ ui' = ui /\ err' = err
          /\ LET page == slides'[Len(slides')] IN
             /\ Len(page.shapes) = 1
             /\ page.shapes[1].chart = "net"
             /\ \/ page.shapes[1].text = ""
                \/ \E x \in DrawErrors :
                      page.shapes[1].text = "Graph Error: " \o x]_vars

C7_Witness ==
    /\ Offered
    /\ Len(slides) = 3
    /\ TypeOf(Deck[2]) = S("network_graph")
    /\ slides[2].shapes[1].text = "Graph Error: layout failed"
    /\ Len(slides[3].shapes) = 1

\* The claim's reading of one side of an event: the value of the first
\* candidate key that is present with a value other than "" and 0,
\* stringified, else the sentinel.
Usable(e, key) ==
    \E j \in 1..Len(e.v) : e.v[j][1] = key /\ e.v[j][2] \notin {S(""), N(0)}
Reads(e, keys, sentinel, out) ==
    \/ \E i \in 1..4 :
          /\ Usable(e, keys[i])
          /\ \A h \in 1..(i - 1) : ~Usable(e, keys[h])
          /\ \E j \in 1..Len(e.v) : e.v[j][1] = keys[i] /\ out = PyStr(e.v[j][2])
    \/ (\A i \in 1..4 : ~Usable(e, keys[i])) /\ out = sentinel

\* C8: the dates and labels read from the events are, for each mapping entry
\* in order, the first truthy date key and the first truthy label key,
\* stringified, else N/A and No Label; other entries are skipped.
C8_EventKeyFallthrough ==
    pc = "tl_draw" =>
        LET maps == SelectSeq(RawEvents, IsDict) IN
        /\ Len(loc.dates) = Len(maps)
        /\ Len(loc.labels) = Len(maps)
        /\ \A j \in 1..Len(maps) :
              /\ Reads(maps[j], DateKeys, "N/A", loc.dates[j])
              /\ Reads(maps[j], LabelKeys, "No Label", loc.labels[j])
              /\ maps[j] = EventFounded =>
                    loc.dates[j] = "1990" /\ loc.labels[j] = "Founded"
              /\ maps[j] = D(<<>>) =>
                    loc.dates[j] = "N/A" /\ loc.labels[j] = "No Label"

C8_Witness ==
    /\ pc = "tl_draw"
    /\ Len(RawEvents) = 1
    /\ IsDict(RawEvents[1])
    /\ Lookup(RawEvents[1].v, "date", Null) = S("")
    /\ Lookup(RawEvents[1].v, "year", Null) = N(1990)
    /\ loc.dates = <<"1990">>
    /\ loc.labels = <<"No Label">>

\* The canonical edges the edge rules give.
ClaimedEdges(raw) ==
    LET usable(e) == (IsList(e) \/ IsDict(e)) /\ Len(e.v) >= 2
        kept == SelectSeq(raw, usable)
        first(e) == IF IsList(e) THEN e.v[1] ELSE e.v[1][2]
        second(e) == IF IsList(e) THEN e.v[2] ELSE e.v[2][2]
    IN [j \in 1..Len(kept) |-> <<PyStr(first(kept[j])), PyStr(second(kept[j]))>>]

\* C9: the canonical edges are, in input order, the first two elements of
\* each sequence of at least 2 and the first two values of each mapping of
\* at least 2, stringified; every other entry is skipped without a failure.
C9_EdgeNormalization ==
    /\ pc = "net_draw" => loc.clean_edges = ClaimedEdges(RawEdges)
    /\ pc = "net_draw" /\ RawEdges = ExampleEdges =>
          loc.clean_edges = << <<"A", "B">>, <<"A", "C">> >>
    /\ pc = "done" /\ RawNodes \in {<<>>, <<S("A")>>} => Offered

C9_Witness ==
    /\ pc = "net_draw"
    /\ RawEdges = ExampleEdges
    /\ loc.clean_edges = << <<"A", "B">>, <<"A", "C">> >>

\* The network picture of the descriptor just processed.
LastIsNet ==
    /\ k > 0
    /\ Len(slides) = k
    /\ Len(slides[k].shapes) = 1
    /\ slides[k].shapes[1].chart = "net"

\* C10: the picture of a network_graph descriptor is the placeholder exactly
\* when the canonical nodes and the canonical edges are both empty; else the
\* graph (or the diagnostic) is drawn, its nodes the distinct identifiers of
\* the canonical nodes and of the endpoints of the canonical edges.
C10_PlaceholderIffNoNodesNoEdges ==
    LastIsNet =>
        LET img == slides[k].shapes[1]
            ids == {loc.clean_nodes[j] : j \in 1..Len(loc.clean_nodes)}
                     \cup {loc.clean_edges[j][1] : j \in 1..Len(loc.clean_edges)}
                     \cup {loc.clean_edges[j][2] : j \in 1..Len(loc.clean_edges)}
        IN /\ (img.text = "No Data for Graph")
                <=> (loc.clean_nodes = <<>> /\ loc.clean_edges = <<>>)
           /\ img.text = "" => img.a = ids

C10_Witness ==
    /\ LastIsNet
    /\ loc.clean_nodes = <<>>
    /\ loc.clean_edges = << <<"A", "B">> >>
    /\ slides[k].shapes[1].text = ""
    /\ slides[k].shapes[1].a = {"A", "B"}

====
